---- MODULE Spec2Model ----
(***************************************************************************)
(* A model of amazon_reviews_processor.py: three parsers that turn three   *)
(* input files into lists of normalized review records, the Combiner       *)
(* (concatenate, truncate, deduplicate, rewrite categories), the Exporter  *)
(* and the Driver main() that runs them in sequence.                       *)
(*                                                                         *)
(* Python values are modelled as follows.                                  *)
(*   str            a sequence of one-character strings                    *)
(*   int / float    an integer (the inputs are chosen so that every        *)
(*                  timestamp fits TLC's integers: dates in January 1970)  *)
(*   None or value  <<>> for None, <<v>> for the value v                   *)
(*   a JSON value   a record of its type and its value (see below)         *)
(*   a call         [exc |-> "none" or the exception's name, data |-> ...] *)
(***************************************************************************)
EXTENDS Integers, Sequences, FiniteSets, TLC

----------------------------------------------------------------------------
(* Bounds of the model *)

MaxLines == 2

MaxBlocks == 1

MaxSamples == 3

----------------------------------------------------------------------------
(* Python built-ins *)

None == <<>>

Some(v) == <<v>>

\* bool(x) of an optional integer: None and 0 are falsy
Truthy(o) == o # None /\ o[1] # 0

Digits == <<"0", "1", "2", "3", "4", "5", "6", "7", "8", "9">>

IsDigit(c) == \E i \in 1..10 : Digits[i] = c

DigitVal(c) == (CHOOSE i \in 1..10 : Digits[i] = c) - 1

RECURSIVE NatStr(_)
NatStr(n) == IF n < 10 THEN <<Digits[n + 1]>>
             ELSE NatStr(n \div 10) \o <<Digits[(n % 10) + 1]>>

\* str(n) of an integer
IntStr(n) == IF n < 0 THEN <<"-">> \o NatStr(-n) ELSE NatStr(n)

RECURSIVE DigitsVal(_)
DigitsVal(s) == IF s = <<>> THEN 0
                ELSE 10 * DigitsVal(SubSeq(s, 1, Len(s) - 1)) + DigitVal(s[Len(s)])

AllDigits(s) == \A i \in 1..Len(s) : IsDigit(s[i])

\* s[i:] starts with sub
StartsAt(s, sub, i) ==
    /\ i + Len(sub) - 1 <= Len(s)
    /\ \A k \in 1..Len(sub) : s[i + k - 1] = sub[k]

\* sub in s
Contains(s, sub) == \E i \in 1..(Len(s) + 1) : StartsAt(s, sub, i)

RECURSIVE ReplaceFrom(_, _, _, _)
ReplaceFrom(s, old, new, i) ==
    IF i > Len(s) THEN <<>>
    ELSE IF StartsAt(s, old, i)
         THEN new \o ReplaceFrom(s, old, new, i + Len(old))
         ELSE <<s[i]>> \o ReplaceFrom(s, old, new, i + 1)

\* s.replace(old, new), old not empty: leftmost non-overlapping occurrences
StrReplace(s, old, new) == ReplaceFrom(s, old, new, 1)

Upper == <<"A", "C", "E", "J", "L", "M", "N", "O", "S", "V", "X">>

LowerOf == <<"a", "c", "e", "j", "l", "m", "n", "o", "s", "v", "x">>

LowerChar(c) == IF \E i \in 1..Len(Upper) : Upper[i] = c
                THEN LowerOf[CHOOSE i \in 1..Len(Upper) : Upper[i] = c]
                ELSE c

\* s.lower()
StrLower(s) == [i \in 1..Len(s) |-> LowerChar(s[i])]

\* all sequences over S of length at most n
SeqsUpTo(S, n) == UNION {[1..k -> S] : k \in 0..n}

----------------------------------------------------------------------------
(* datetime *)

IsLeap(y) == (y % 4 = 0) /\ ((y % 100 # 0) \/ (y % 400 = 0))

DaysInMonth(y, m) ==
    IF m = 2 THEN (IF IsLeap(y) THEN 29 ELSE 28)
    ELSE IF m \in {4, 6, 9, 11} THEN 30 ELSE 31

RECURSIVE DaysBeforeMonth(_, _)
DaysBeforeMonth(y, m) ==
    IF m = 1 THEN 0 ELSE DaysBeforeMonth(y, m - 1) + DaysInMonth(y, m - 1)

DaysBeforeYear(y) ==
    (y - 1) * 365 + ((y - 1) \div 4) - ((y - 1) \div 100) + ((y - 1) \div 400)

\* date(y, m, d) exists
ValidDate(y, m, d) ==
    /\ y >= 1
    /\ m \in 1..12
    /\ d >= 1 /\ d <= DaysInMonth(y, m)

\* days from 1970-01-01 to y-m-d
EpochDays(y, m, d) ==
    DaysBeforeYear(y) + DaysBeforeMonth(y, m) + d
        - (DaysBeforeYear(1970) + 1)

\* int(datetime(y, m, d).timestamp() * 1000) where local time is UTC + tz seconds
TimestampMs(y, m, d, tz) == (EpochDays(y, m, d) * 86400 - tz) * 1000

----------------------------------------------------------------------------
(* JSON values and json.loads *)

(* A JSON value is a record of its type t and, by type, its string, number, *)
(* list of numbers or list of strings; the fields of the other types are    *)
(* blank. An object is a function from the keys this program reads to JSON  *)
(* values, JAbsent for a key the object does not have.                      *)

JAbsent == [t |-> "absent", str |-> <<>>, num |-> 0, nums |-> <<>>, strs |-> <<>>]

JNull == [JAbsent EXCEPT !.t = "null"]

JStr(s) == [JAbsent EXCEPT !.t = "str", !.str = s]

JNum(n) == [JAbsent EXCEPT !.t = "num", !.num = n]

JList(l) == [JAbsent EXCEPT !.t = "list", !.nums = l]

JStrList(l) == [JAbsent EXCEPT !.t = "list", !.strs = l]

Keys == {"overall", "summary", "reviewText", "asin", "reviewerID", "helpful",
         "reviewTime", "unixReviewTime", "category", "parent_asin", "image"}

EmptyObject == [k \in Keys |-> JAbsent]

\* a line of a line-delimited JSON file: the text of an object, the text of
\* another JSON value (an array), text json.loads rejects, or an empty line
ObjectLine(obj) == [kind |-> "object", obj |-> obj]

ArrayLine == [kind |-> "array", obj |-> EmptyObject]

MalformedLine == [kind |-> "malformed", obj |-> EmptyObject]

EmptyLine == [kind |-> "empty", obj |-> EmptyObject]

\* json.loads(line.strip()): data is the decoded object, is_dict tells whether
\* the decoded value is one
json_loads(line) ==
    IF line.kind \in {"object", "array"}
    THEN [exc |-> "none", is_dict |-> line.kind = "object", data |-> line.obj]
    ELSE [exc |-> "JSONDecodeError", is_dict |-> FALSE, data |-> line.obj]

\* d.get(key, default)
Get(d, key, default) == IF d[key].t # "absent" THEN d[key] ELSE default

----------------------------------------------------------------------------
(* datetime.strptime(s, '%m %d, %Y') *)

FirstIndex(s, c, from) ==
    IF \E i \in from..Len(s) : s[i] = c
    THEN CHOOSE i \in from..Len(s) : s[i] = c /\ \A j \in from..(i - 1) : s[j] # c
    ELSE 0

FirstNot(s, c, from) ==
    IF \E i \in from..Len(s) : s[i] # c
    THEN CHOOSE i \in from..Len(s) : s[i] # c /\ \A j \in from..(i - 1) : s[j] = c
    ELSE Len(s) + 1

NoDate == [ok |-> FALSE, y |-> 0, m |-> 0, d |-> 0]

\* month, spaces, day, a comma, spaces, a four-digit year; ok is FALSE where
\* strptime raises ValueError
strptime_mdY(s) ==
    LET sp     == FirstIndex(s, " ", 1)
        month  == SubSeq(s, 1, sp - 1)
        dstart == FirstNot(s, " ", sp)
        comma  == FirstIndex(s, ",", dstart)
        day    == SubSeq(s, dstart, comma - 1)
        ystart == FirstNot(s, " ", comma + 1)
        year   == SubSeq(s, ystart, Len(s))
    IN IF /\ sp > 1 /\ comma > dstart /\ ystart > comma + 1
          /\ Len(month) \in 1..2 /\ AllDigits(month)
          /\ Len(day) \in 1..2 /\ AllDigits(day)
          /\ Len(year) = 4 /\ AllDigits(year)
          /\ ValidDate(DigitsVal(year), DigitsVal(month), DigitsVal(day))
       THEN [ok |-> TRUE, y |-> DigitsVal(year), m |-> DigitsVal(month),
             d |-> DigitsVal(day)]
       ELSE NoDate

\* datetime.strptime(s, '%Y-%m-%d') of a match of \d{4}-\d{1,2}-\d{1,2},
\* given as its three numbers
strptime_Ymd(date) ==
    IF ValidDate(date.y, date.m, date.d)
    THEN [ok |-> TRUE, y |-> date.y, m |-> date.m, d |-> date.d]
    ELSE NoDate

----------------------------------------------------------------------------
(* The normalized review record *)

RecordFields == {"rating", "title", "text", "images", "asin", "parent_asin",
                 "user_id", "timestamp", "helpful_vote", "verified_purchase",
                 "category"}

AmazonInstantVideo ==
    <<"A", "m", "a", "z", "o", "n", " ", "I", "n", "s", "t", "a", "n", "t", " ",
      "V", "i", "d", "e", "o">>

DefaultReviewTime == <<"0", "1", " ", "1", ",", " ", "1", "9", "7", "0">>

Ok(v) == [exc |-> "none", data |-> v]

Raise(e, v) == [exc |-> e, data |-> v]

----------------------------------------------------------------------------
(* parse_json_reviews *)

\* lines 66-70: the timestamp of a decoded review
ReviewTimestamp(review, tz) ==
    LET rt == Get(review, "reviewTime", JStr(DefaultReviewTime))
    IN IF rt.t # "str" THEN Raise("TypeError", 0)
       ELSE LET date == strptime_mdY(rt.str)
            IN IF date.ok THEN Ok(TimestampMs(date.y, date.m, date.d, tz))
               ELSE LET unix == Get(review, "unixReviewTime", JNull)
                    IN IF unix.t = "num" /\ unix.num # 0
                       THEN Ok(Get(review, "unixReviewTime", JNum(0)).num * 1000)
                       ELSE Ok(0)

\* line 72: review.get('helpful', [0, 0])[0]
HelpfulVotes(review) ==
    LET h == Get(review, "helpful", JList(<<0, 0>>))
    IN IF h.t # "list" THEN Raise("TypeError", 0)
       ELSE IF h.nums = <<>> THEN Raise("IndexError", 0)
       ELSE Ok(h.nums[1])

\* line 75: float(review.get('overall', 0))
Rating(review) ==
    LET o == Get(review, "overall", JNum(0))
    IN IF o.t = "num" THEN Ok(o.num)
       ELSE IF o.t = "str" THEN Raise("ValueError", 0)
       ELSE Raise("TypeError", 0)

\* lines 65-86: the body of the loop for one line; exc is "none" with the record
\* to append, or the exception the body raises
ReviewOfLine(line, tz) ==
    LET loaded == json_loads(line)
    IN IF loaded.exc # "none" THEN Raise(loaded.exc, <<>>)
       ELSE IF ~loaded.is_dict THEN Raise("AttributeError", <<>>)
       ELSE LET review == loaded.data
                ts     == ReviewTimestamp(review, tz)
                votes  == HelpfulVotes(review)
                rating == Rating(review)
            IN IF ts.exc # "none" THEN Raise(ts.exc, <<>>)
               ELSE IF votes.exc # "none" THEN Raise(votes.exc, <<>>)
               ELSE IF rating.exc # "none" THEN Raise(rating.exc, <<>>)
               ELSE Ok([rating            |-> Some(rating.data),
                        title             |-> Get(review, "summary", JStr(<<>>)).str,
                        text              |-> Get(review, "reviewText", JStr(<<>>)).str,
                        images            |-> <<>>,
                        asin              |-> Get(review, "asin", JStr(<<>>)).str,
                        parent_asin       |-> Get(review, "asin", JStr(<<>>)).str,
                        user_id           |-> Get(review, "reviewerID", JStr(<<>>)).str,
                        timestamp         |-> ts.data,
                        helpful_vote      |-> votes.data,
                        verified_purchase |-> FALSE,
                        category          |-> AmazonInstantVideo])

\* line 89 (and 53, 123): the early return once the cap is reached
CapReached(max_samples, sample_count) ==
    Truthy(max_samples) /\ sample_count >= max_samples[1]

\* lines 63-94: the loop over the lines from line i on, reviews_data so far
RECURSIVE JsonReviewsLoop(_, _, _, _, _)
JsonReviewsLoop(lines, i, reviews_data, max_samples, tz) ==
    IF i > Len(lines) THEN Ok(reviews_data)
    ELSE LET r == ReviewOfLine(lines[i], tz)
         IN IF r.exc = "JSONDecodeError"
            THEN JsonReviewsLoop(lines, i + 1, reviews_data, max_samples, tz)
            ELSE IF r.exc # "none" THEN Raise(r.exc, <<>>)
            ELSE LET data == Append(reviews_data, r.data)
                 IN IF CapReached(max_samples, Len(data)) THEN Ok(data)
                    ELSE JsonReviewsLoop(lines, i + 1, data, max_samples, tz)

\* file is None for a path that cannot be opened, else <<the file's lines>>
parse_json_reviews(file, max_samples, tz) ==
    IF file = None THEN Raise("FileNotFoundError", <<>>)
    ELSE JsonReviewsLoop(file[1], 1, <<>>, max_samples, tz)

----------------------------------------------------------------------------
(* parse_amazon_meta_txt *)

(* The text dump is given as what the regular expressions of lines 12-29    *)
(* find in it: the blocks after each "Id: <digits>", and in each block the  *)
(* ASIN (None when "ASIN:" has no match), the category names after each "|" *)
(* with the "[...]" tag cut and blanks stripped, and the matched review     *)
(* lines as (date, cutomer, rating, votes, helpful).                        *)

Unknown == <<"U", "n", "k", "n", "o", "w", "n">>

\* lines 32-36
TxtTimestamp(date, tz) ==
    LET d == strptime_Ymd(date)
    IN IF d.ok THEN TimestampMs(d.y, d.m, d.d, tz) ELSE 0

\* lines 38-50
TxtRecord(review, asin, main_category, tz) ==
    [rating            |-> Some(review.rating),
     title             |-> <<>>,
     text              |-> <<>>,
     images            |-> <<>>,
     asin              |-> asin,
     parent_asin       |-> asin,
     user_id           |-> review.user,
     timestamp         |-> TxtTimestamp(review.date, tz),
     helpful_vote      |-> review.helpful,
     verified_purchase |-> FALSE,
     category          |-> main_category]

\* lines 31-54: the loop over the review lines of one block; returned is TRUE
\* when line 54 returns from the function
RECURSIVE TxtReviewLoop(_, _, _, _, _, _, _)
TxtReviewLoop(reviews, j, asin, main_category, reviews_data, max_samples, tz) ==
    IF j > Len(reviews) THEN [returned |-> FALSE, data |-> reviews_data]
    ELSE LET data == Append(reviews_data,
                            TxtRecord(reviews[j], asin, main_category, tz))
         IN IF CapReached(max_samples, Len(data))
            THEN [returned |-> TRUE, data |-> data]
            ELSE TxtReviewLoop(reviews, j + 1, asin, main_category, data,
                               max_samples, tz)

\* lines 16-56: the loop over the blocks
RECURSIVE TxtBlockLoop(_, _, _, _, _)
TxtBlockLoop(blocks, i, reviews_data, max_samples, tz) ==
    IF i > Len(blocks) THEN reviews_data
    ELSE LET block == blocks[i]
         IN IF block.asin = None
            THEN TxtBlockLoop(blocks, i + 1, reviews_data, max_samples, tz)
            ELSE LET main_category ==
                         IF block.cats # <<>> THEN block.cats[1] ELSE Unknown
                     r == TxtReviewLoop(block.reviews, 1, block.asin[1],
                                        main_category, reviews_data,
                                        max_samples, tz)
                 IN IF r.returned THEN r.data
                    ELSE TxtBlockLoop(blocks, i + 1, r.data, max_samples, tz)

parse_amazon_meta_txt(file, max_samples, tz) ==
    IF file = None THEN Raise("FileNotFoundError", <<>>)
    ELSE Ok(TxtBlockLoop(file[1], 1, <<>>, max_samples, tz))

----------------------------------------------------------------------------
(* parse_meta_instant_video_json *)

\* lines 103-120: the body of the loop for one line
MetaOfLine(line) ==
    LET loaded == json_loads(line)
    IN IF loaded.exc # "none" THEN Raise(loaded.exc, <<>>)
       ELSE IF ~loaded.is_dict THEN Raise("AttributeError", <<>>)
       ELSE LET meta     == loaded.data
                asin     == Get(meta, "asin", JStr(<<>>)).str
                category == Get(meta, "category", JStr(AmazonInstantVideo)).str
            IN Ok([rating            |-> None,
                   title             |-> <<>>,
                   text              |-> <<>>,
                   images            |-> Get(meta, "image", JStrList(<<>>)).strs,
                   asin              |-> asin,
                   parent_asin       |-> Get(meta, "parent_asin", JStr(asin)).str,
                   user_id           |-> <<>>,
                   timestamp         |-> 0,
                   helpful_vote      |-> 0,
                   verified_purchase |-> FALSE,
                   category          |-> category])

\* lines 101-128
RECURSIVE MetaLoop(_, _, _, _)
MetaLoop(lines, i, reviews_data, max_samples) ==
    IF i > Len(lines) THEN Ok(reviews_data)
    ELSE LET r == MetaOfLine(lines[i])
         IN IF r.exc = "JSONDecodeError"
            THEN MetaLoop(lines, i + 1, reviews_data, max_samples)
            ELSE IF r.exc # "none" THEN Raise(r.exc, <<>>)
            ELSE LET data == Append(reviews_data, r.data)
                 IN IF CapReached(max_samples, Len(data)) THEN Ok(data)
                    ELSE MetaLoop(lines, i + 1, data, max_samples)

parse_meta_instant_video_json(file, max_samples) ==
    IF file = None THEN Raise("FileNotFoundError", <<>>)
    ELSE MetaLoop(file[1], 1, <<>>, max_samples)

----------------------------------------------------------------------------
(* combine_review_data *)

(* A DataFrame is its set of column names, its index labels and its rows,   *)
(* each row a function from the column names to values.                     *)

Book == <<"B", "o", "o", "k">>

Books == <<"B", "o", "o", "k", "s">>

BooksAndLiterature ==
    <<"B", "o", "o", "k", "s", " ", "&", " ",
      "L", "i", "t", "e", "r", "a", "t", "u", "r", "e">>

VideoAndEntertainment ==
    <<"V", "i", "d", "e", "o", " ", "&", " ",
      "E", "n", "t", "e", "r", "t", "a", "i", "n", "m", "e", "n", "t">>

\* lines 131-133
RECURSIVE Extend(_, _)
Extend(datasets, i) ==
    IF i > Len(datasets) THEN <<>> ELSE datasets[i] \o Extend(datasets, i + 1)

\* l[:n]
SlicePrefix(l, n) ==
    IF n >= 0 THEN SubSeq(l, 1, IF n < Len(l) THEN n ELSE Len(l))
    ELSE SubSeq(l, 1, Len(l) + n)

\* Truncate keeping the last items: all_reviews[-max_total_samples:]
Truncate_KeepLast(all_reviews, max_total_samples) ==
    IF Truthy(max_total_samples) /\ Len(all_reviews) > max_total_samples[1]
    THEN SubSeq(all_reviews, Len(all_reviews) - max_total_samples[1] + 1,
                Len(all_reviews))
    ELSE all_reviews

\* lines 135-136
Truncate(all_reviews, max_total_samples) ==
    IF Truthy(max_total_samples) /\ Len(all_reviews) > max_total_samples[1]
    THEN SlicePrefix(all_reviews, max_total_samples[1])
    ELSE all_reviews

\* line 138: pd.DataFrame(list of dicts); an empty list gives no columns
DataFrame(all_reviews) ==
    [columns |-> UNION {DOMAIN all_reviews[i] : i \in 1..Len(all_reviews)},
     index   |-> [i \in 1..Len(all_reviews) |-> i - 1],
     rows    |-> all_reviews]

\* the positions of the rows of df
RowRange(df) == 1..Len(df.rows)

\* df[name] = values, a Series over the rows of df
SetColumn(df, name, values) ==
    [df EXCEPT !.columns = @ \cup {name},
               !.rows = [i \in 1..Len(df.rows) |->
                            [c \in (DOMAIN df.rows[i]) \cup {name} |->
                                IF c = name THEN values[i]
                                ELSE df.rows[i][c]]]]

\* df.drop(name, axis=1, inplace=True)
DropColumn(df, name) ==
    [df EXCEPT !.columns = @ \ {name},
               !.rows = [i \in 1..Len(df.rows) |->
                            [c \in (DOMAIN df.rows[i]) \ {name} |-> df.rows[i][c]]]]

\* line 139: user_id + '_' + asin + '_' + str(timestamp); fillna('') changes
\* nothing, user_id and asin being strings in every record of the model
ReviewId(row) ==
    row["user_id"] \o <<"_">> \o row["asin"] \o <<"_">> \o IntStr(row["timestamp"])

\* the positions from i on, in order, of the rows whose value in column name
\* is in no earlier row
RECURSIVE FirstOccurrences(_, _, _)
FirstOccurrences(rows, name, i) ==
    IF i > Len(rows) THEN <<>>
    ELSE (IF \A j \in 1..(i - 1) : rows[j][name] # rows[i][name]
          THEN <<i>> ELSE <<>>) \o FirstOccurrences(rows, name, i + 1)

\* line 140: df.drop_duplicates(subset=[name], keep='first', inplace=True)
DropDuplicates(df, name) ==
    LET kept == FirstOccurrences(df.rows, name, 1)
    IN [df EXCEPT !.index = [k \in 1..Len(kept) |-> df.index[kept[k]]],
                  !.rows = [k \in 1..Len(kept) |-> df.rows[kept[k]]]]

\* line 141: pd.to_datetime(timestamp, unit='ms'), as the day since 1970-01-01
\* and the millisecond of that day (every timestamp of the model is in range)
ReviewDate(row) ==
    Some([day |-> row["timestamp"] \div 86400000,
          ms  |-> row["timestamp"] % 86400000])

\* RewriteBooks replacing "Book" where the code replaces "Books"
RewriteBooks_ReplacesBook(x) ==
    IF Contains(x, Book) THEN StrReplace(x, Book, BooksAndLiterature) ELSE x

\* line 143
RewriteBooks(x) ==
    IF Contains(x, Book) THEN StrReplace(x, Books, BooksAndLiterature) ELSE x

\* line 144
RewriteVideo(x) ==
    IF x = AmazonInstantVideo THEN VideoAndEntertainment ELSE x

\* lines 143-144 on one row
BooksCategory(row) == RewriteBooks(row["category"])

VideoCategory(row) == RewriteVideo(row["category"])

\* CombineFrame without line 146
CombineFrame_KeepsReviewId(df) ==
    LET keyed   == SetColumn(df, "review_id",
                             [i \in RowRange(df) |-> ReviewId(df.rows[i])])
        deduped == DropDuplicates(keyed, "review_id")
        dated   == SetColumn(deduped, "review_date",
                             [i \in RowRange(deduped) |-> ReviewDate(deduped.rows[i])])
        books   == SetColumn(dated, "category",
                             [i \in RowRange(dated) |-> BooksCategory(dated.rows[i])])
    IN SetColumn(books, "category",
                 [i \in RowRange(books) |-> VideoCategory(books.rows[i])])

\* lines 139-147, given the DataFrame of line 138
CombineFrame(df) ==
    LET keyed   == SetColumn(df, "review_id",
                             [i \in RowRange(df) |-> ReviewId(df.rows[i])])
        deduped == DropDuplicates(keyed, "review_id")
        dated   == SetColumn(deduped, "review_date",
                             [i \in RowRange(deduped) |-> ReviewDate(deduped.rows[i])])
        books   == SetColumn(dated, "category",
                             [i \in RowRange(dated) |-> BooksCategory(dated.rows[i])])
        video   == SetColumn(books, "category",
                             [i \in RowRange(books) |-> VideoCategory(books.rows[i])])
    IN DropColumn(video, "review_id")

\* lines 130-147
combine_review_data(datasets, max_total_samples) ==
    LET all_reviews == Truncate(Extend(datasets, 1), max_total_samples)
        df == DataFrame(all_reviews)
    IN IF ~({"user_id", "asin", "timestamp"} \subseteq df.columns)
       THEN Raise("KeyError", df)
       ELSE Ok(CombineFrame(df))

----------------------------------------------------------------------------
(* save_combined_data *)

Csv == <<"c", "s", "v">>

Json == <<"j", "s", "o", "n">>

Excel == <<"e", "x", "c", "e", "l">>

\* save_combined_data writing csv for a format it does not know
save_combined_data_DefaultsToCsv(df, file, format) ==
    IF StrLower(format) \in {Json, Excel}
    THEN [exc |-> "none", data |-> Some([format |-> StrLower(format), rows |-> df.rows])]
    ELSE [exc |-> "none", data |-> Some([format |-> Csv, rows |-> df.rows])]

\* lines 149-157; file is the content of output_path before the call, data the
\* content after it
save_combined_data(df, file, format) ==
    IF StrLower(format) \in {Csv, Json, Excel}
    THEN Ok(Some([format |-> StrLower(format), rows |-> df.rows]))
    ELSE Raise("ValueError", file)

----------------------------------------------------------------------------
(* The state: one run of main(), or one call of one of its functions *)

VARIABLES
    pc,            \* the statement of main() that runs next
    args,          \* the command line: --samples and --format
    tz,            \* the local time zone, seconds east of UTC
    fs,            \* the three input files: None if missing, else <<content>>
    max_samples,   \* line 169
    txt_reviews,   \* line 172: None until assigned
    json_reviews,  \* line 176
    meta_reviews,  \* line 180
    combined_df,   \* line 184
    output_file,   \* the file at --output: None until it is written
    exc            \* the uncaught exception: its name and the function raising it

vars == <<pc, args, tz, fs, max_samples, txt_reviews, json_reviews, meta_reviews,
          combined_df, output_file, exc>>

NoExc == [name |-> "none", raised_by |-> "none"]

TzOffsets == {0, 18000}

Str_A == <<"A">>

Str_A_B == <<"A", "_", "B">>

Str_C == <<"C">>

Str_B_C == <<"B", "_", "C">>

Str_A1 == <<"A", "1">>

Str_B001 == <<"B", "0", "0", "1">>

Str_U1 == <<"U", "1">>

Str_X1 == <<"X", "1">>

Str_X2 == <<"X", "2">>

Str_Url == <<"h", "t", "t", "p", ":", "/", "/", "a">>

Str_Jan5 == <<"0", "1", " ", "5", ",", " ", "1", "9", "7", "0">>

Str_NoDate == <<"n", "/", "a">>

Str_Feb30 == <<"0", "2", " ", "3", "0", ",", " ", "1", "9", "7", "0">>

EBooks == <<"E", "-", "B", "o", "o", "k", "s">>

Xml == <<"x", "m", "l">>

CsvUpper == <<"C", "S", "V">>

(* Blocks of the text dump *)

Jan5 == [y |-> 1970, m |-> 1, d |-> 5]

Month13 == [y |-> 1970, m |-> 13, d |-> 1]

TxtReview(date, user, rating, votes, helpful) ==
    [date |-> date, user |-> user, rating |-> rating, votes |-> votes,
     helpful |-> helpful]

\* a block with a review line and no "ASIN:"
BlockNoAsin ==
    [asin |-> None, cats |-> <<Books>>,
     reviews |-> <<TxtReview(Jan5, Str_A1, 5, 10, 3)>>]

\* the block of the example: one review, and the same customer a second time
BlockBooks ==
    [asin |-> Some(Str_B001), cats |-> <<Books, Unknown>>,
     reviews |-> <<TxtReview(Jan5, Str_A1, 5, 10, 3),
                   TxtReview(Jan5, Str_A1, 1, 2, 0)>>]

\* no category line; a date strptime rejects
BlockUnderscore ==
    [asin |-> Some(Str_C), cats |-> <<>>,
     reviews |-> <<TxtReview(Month13, Str_A_B, 4, 1, 1)>>]

\* category "E-Books"
BlockUnderscore2 ==
    [asin |-> Some(Str_B_C), cats |-> <<EBooks>>,
     reviews |-> <<TxtReview(Month13, Str_A, 2, 0, 0)>>]

(* Lines of the review JSON file *)

Obj1(k1, v1) == [EmptyObject EXCEPT ![k1] = v1]

Obj2(k1, v1, k2, v2) == [EmptyObject EXCEPT ![k1] = v1, ![k2] = v2]

Obj3(k1, v1, k2, v2, k3, v3) ==
    [EmptyObject EXCEPT ![k1] = v1, ![k2] = v2, ![k3] = v3]

Obj4(k1, v1, k2, v2, k3, v3, k4, v4) ==
    [EmptyObject EXCEPT ![k1] = v1, ![k2] = v2, ![k3] = v3, ![k4] = v4]

\* {"overall": 4, "asin": "X1", "reviewerID": "U1", "reviewTime": "01 5, 1970"}
LineFull ==
    ObjectLine(Obj4("overall", JNum(4), "asin", JStr(Str_X1),
                  "reviewerID", JStr(Str_U1), "reviewTime", JStr(Str_Jan5)))

\* {"asin": "X1", "reviewerID": "U1", "unixReviewTime": 86400}
LineUnixOnly ==
    ObjectLine(Obj3("asin", JStr(Str_X1), "reviewerID", JStr(Str_U1),
                  "unixReviewTime", JNum(86400)))

\* {"asin": "X1", "reviewTime": "n/a", "unixReviewTime": 86400}
LineBadTimeUnix ==
    ObjectLine(Obj3("asin", JStr(Str_X1), "reviewTime", JStr(Str_NoDate),
                  "unixReviewTime", JNum(86400)))

\* {"asin": "X1", "reviewTime": "02 30, 1970"}
LineBadTime ==
    ObjectLine(Obj2("asin", JStr(Str_X1), "reviewTime", JStr(Str_Feb30)))

\* {"asin": "X2", "overall": 3}
LineNoTime == ObjectLine(Obj2("asin", JStr(Str_X2), "overall", JNum(3)))

\* [1, 2]
LineNotObject == ArrayLine

\* {"asin": "X1", "helpful": []}
LineEmptyHelpful == ObjectLine(Obj2("asin", JStr(Str_X1), "helpful", JList(<<>>)))

\* {"asin": "X1", "helpful": [7, 9], "overall": null}
LineNullOverall ==
    ObjectLine(Obj3("asin", JStr(Str_X1), "helpful", JList(<<7, 9>>),
                  "overall", JNull))

\* {"asin": "X1", "reviewTime": 5}
LineNumberTime == ObjectLine(Obj2("asin", JStr(Str_X1), "reviewTime", JNum(5)))

\* {"reviewerID": "A", "asin": "B_C", "reviewTime": "n/a"}
LineUnderscore2 ==
    ObjectLine(Obj3("reviewerID", JStr(Str_A), "asin", JStr(Str_B_C),
                  "reviewTime", JStr(Str_NoDate)))

(* Lines of the metadata JSON file *)

\* {"asin": "X2", "category": "Books", "image": ["http://a"]}
MetaBooks ==
    ObjectLine(Obj3("asin", JStr(Str_X2), "category", JStr(Books),
                  "image", JStrList(<<Str_Url>>)))

\* {"asin": "X2"}
MetaDefault == ObjectLine(Obj1("asin", JStr(Str_X2)))

\* {"asin": "X1", "category": "Book", "parent_asin": "X2"}
MetaBook ==
    ObjectLine(Obj3("asin", JStr(Str_X1), "category", JStr(Book),
                  "parent_asin", JStr(Str_X2)))

Files(units, n) == {None} \cup {Some(f) : f \in SeqsUpTo(units, n)}

Readable(units, n) == {Some(f) : f \in SeqsUpTo(units, n)}

Idle ==
    /\ max_samples = None
    /\ txt_reviews = None
    /\ json_reviews = None
    /\ meta_reviews = None
    /\ combined_df = None
    /\ output_file = None
    /\ exc = NoExc

----------------------------------------------------------------------------
(* main() *)

Init ==
    /\ pc = "parse_args"
    /\ args \in [samples : 0..MaxSamples, format : {Csv, Json, Excel, Xml, CsvUpper}]
    /\ tz \in TzOffsets
    /\ fs \in [txt          : Files({BlockNoAsin, BlockBooks}, MaxBlocks),
               json_reviews : Files({LineFull, MalformedLine}, MaxLines),
               json_meta    : Files({MetaBooks, MetaDefault}, MaxLines)]
    /\ Idle

Fail(name, by) ==
    /\ pc' = "raised"
    /\ exc' = [name |-> name, raised_by |-> by]

\* lines 160-169: argparse rejects a --format outside choices and exits
ParseArgs ==
    /\ pc = "parse_args"
    /\ IF args.format \in {Csv, Json, Excel}
       THEN /\ max_samples' = IF args.samples > 0 THEN Some(args.samples \div 3)
                              ELSE None
            /\ pc' = "parse_txt"
            /\ exc' = exc
       ELSE /\ Fail("SystemExit", "parse_args")
            /\ max_samples' = max_samples
    /\ UNCHANGED <<args, tz, fs, txt_reviews, json_reviews, meta_reviews,
                   combined_df, output_file>>

\* line 172
ParseTxt ==
    /\ pc = "parse_txt"
    /\ LET r == parse_amazon_meta_txt(fs.txt, max_samples, tz)
       IN IF r.exc = "none"
          THEN /\ txt_reviews' = Some(r.data)
               /\ pc' = "parse_json"
               /\ exc' = exc
          ELSE /\ Fail(r.exc, "parse_amazon_meta_txt")
               /\ txt_reviews' = txt_reviews
    /\ UNCHANGED <<args, tz, fs, max_samples, json_reviews, meta_reviews,
                   combined_df, output_file>>

\* line 176
ParseJsonReviews ==
    /\ pc = "parse_json"
    /\ LET r == parse_json_reviews(fs.json_reviews, max_samples, tz)
       IN IF r.exc = "none"
          THEN /\ json_reviews' = Some(r.data)
               /\ pc' = "parse_meta"
               /\ exc' = exc
          ELSE /\ Fail(r.exc, "parse_json_reviews")
               /\ json_reviews' = json_reviews
    /\ UNCHANGED <<args, tz, fs, max_samples, txt_reviews, meta_reviews,
                   combined_df, output_file>>

\* line 180
ParseMeta ==
    /\ pc = "parse_meta"
    /\ LET r == parse_meta_instant_video_json(fs.json_meta, max_samples)
       IN IF r.exc = "none"
          THEN /\ meta_reviews' = Some(r.data)
               /\ pc' = "combine"
               /\ exc' = exc
          ELSE /\ Fail(r.exc, "parse_meta_instant_video_json")
               /\ meta_reviews' = meta_reviews
    /\ UNCHANGED <<args, tz, fs, max_samples, txt_reviews, json_reviews,
                   combined_df, output_file>>

\* line 184
Combine ==
    /\ pc = "combine"
    /\ LET r == combine_review_data(
                    <<txt_reviews[1], json_reviews[1], meta_reviews[1]>>,
                    Some(args.samples))
       IN IF r.exc = "none"
          THEN /\ combined_df' = Some(r.data)
               /\ pc' = "save"
               /\ exc' = exc
          ELSE /\ Fail(r.exc, "combine_review_data")
               /\ combined_df' = combined_df
    /\ UNCHANGED <<args, tz, fs, max_samples, txt_reviews, json_reviews,
                   meta_reviews, output_file>>

\* lines 188-189
Save ==
    /\ pc = "save"
    /\ LET r == save_combined_data(combined_df[1], output_file, args.format)
       IN /\ output_file' = r.data
          /\ IF r.exc = "none"
             THEN pc' = "done" /\ exc' = exc
             ELSE Fail(r.exc, "save_combined_data")
    /\ UNCHANGED <<args, tz, fs, max_samples, txt_reviews, json_reviews,
                   meta_reviews, combined_df>>

Next == ParseArgs \/ ParseTxt \/ ParseJsonReviews \/ ParseMeta \/ Combine \/ Save

Spec == Init /\ [][Next]_vars

----------------------------------------------------------------------------
(* One call of parse_json_reviews(file_path, max_samples) *)

ReviewLines ==
    {LineFull, LineUnixOnly, LineBadTimeUnix, LineBadTime, LineNoTime,
     MalformedLine, EmptyLine, LineNotObject, LineEmptyHelpful, LineNullOverall,
     LineNumberTime}

InitParseJson ==
    /\ pc = "call"
    /\ args \in [samples : {0}, format : {Json}]
    /\ tz \in TzOffsets
    /\ fs \in [txt : {None}, json_reviews : Readable(ReviewLines, MaxLines),
               json_meta : {None}]
    /\ Idle

CallParseJsonReviews ==
    /\ pc = "call"
    /\ \E cap \in {None} \cup {Some(k) : k \in 0..MaxSamples} :
          LET r == parse_json_reviews(fs.json_reviews, cap, tz)
          IN /\ max_samples' = cap
             /\ IF r.exc = "none"
                THEN /\ json_reviews' = Some(r.data)
                     /\ pc' = "returned"
                     /\ exc' = exc
                ELSE /\ Fail(r.exc, "parse_json_reviews")
                     /\ json_reviews' = json_reviews
    /\ UNCHANGED <<args, tz, fs, txt_reviews, meta_reviews, combined_df,
                   output_file>>

SpecParseJson == InitParseJson /\ [][CallParseJsonReviews]_vars

----------------------------------------------------------------------------
(* One call of combine_review_data(txt_reviews, json_reviews, meta_reviews,   *)
(* max_total_samples=args.samples) on what the parsers return for the files   *)

ParsedTxt(file, zone) == Some(parse_amazon_meta_txt(file, None, zone).data)

ParsedJson(file, zone) == Some(parse_json_reviews(file, None, zone).data)

ParsedMeta(file) == Some(parse_meta_instant_video_json(file, None).data)

InitCombine ==
    /\ pc = "call"
    /\ args \in [samples : 0..MaxSamples, format : {Json}]
    /\ tz \in TzOffsets
    /\ fs \in [txt          : Readable({BlockBooks, BlockUnderscore,
                                        BlockUnderscore2}, MaxBlocks),
               json_reviews : Readable({LineFull, LineUnderscore2}, MaxLines),
               json_meta    : Readable({MetaBooks, MetaDefault, MetaBook},
                                       MaxLines)]
    /\ max_samples = None
    /\ txt_reviews = ParsedTxt(fs.txt, tz)
    /\ json_reviews = ParsedJson(fs.json_reviews, tz)
    /\ meta_reviews = ParsedMeta(fs.json_meta)
    /\ combined_df = None
    /\ output_file = None
    /\ exc = NoExc

CallCombine ==
    /\ pc = "call"
    /\ LET r == combine_review_data(
                    <<txt_reviews[1], json_reviews[1], meta_reviews[1]>>,
                    Some(args.samples))
       IN IF r.exc = "none"
          THEN /\ combined_df' = Some(r.data)
               /\ pc' = "returned"
               /\ exc' = exc
          ELSE /\ Fail(r.exc, "combine_review_data")
               /\ combined_df' = combined_df
    /\ UNCHANGED <<args, tz, fs, max_samples, txt_reviews, json_reviews,
                   meta_reviews, output_file>>

SpecCombine == InitCombine /\ [][CallCombine]_vars

----------------------------------------------------------------------------
(* The claims *)

Parsers == {"parse_amazon_meta_txt", "parse_json_reviews",
            "parse_meta_instant_video_json"}

\* the lists the parsers have returned so far
Returned ==
    {l[1] : l \in {txt_reviews, json_reviews, meta_reviews} \ {None}}

\* the concatenation of line 133, once the three parsers have returned
AllReviews == Extend(<<txt_reviews[1], json_reviews[1], meta_reviews[1]>>, 1)

AllParsed == txt_reviews # None /\ json_reviews # None /\ meta_reviews # None

Triple(r) == <<r["user_id"], r["asin"], r["timestamp"]>>

\* row k of the table is the record at position i of l, but for the category
\* and the derived date
SameReview(row, r) ==
    \A c \in RecordFields \ {"category"} : row[c] = r[c]

(* C1: in every run with --samples = s > 0, each parser returns at most      *)
(* s // 3 records, for every s >= 1.                                         *)
C1_PerParserCap ==
    args.samples > 0 =>
        \A l \in Returned : Len(l) <= args.samples \div 3

(* C2: with max_total_samples = s > 0 the combined table has at most s rows, *)
(* and its rows are items among the first s of the concatenation, in their   *)
(* original order.                                                           *)
C2_OverallCap ==
    (combined_df # None /\ args.samples > 0) =>
        LET df == combined_df[1]
        IN /\ Len(df.rows) <= args.samples
           /\ Len(df.index) = Len(df.rows)
           /\ \A k \in 1..Len(df.rows) :
                 /\ df.index[k] < args.samples
                 /\ df.index[k] + 1 \in 1..Len(AllReviews)
                 /\ SameReview(df.rows[k], AllReviews[df.index[k] + 1])
           /\ \A k \in 1..(Len(df.rows) - 1) : df.index[k] < df.index[k + 1]

\* the concatenation is longer than the cap and the table is cut to the cap
C2_Witness ==
    /\ combined_df # None
    /\ args.samples > 0
    /\ Len(AllReviews) > args.samples
    /\ Len(combined_df[1].rows) = args.samples

\* the positions, from i on, of the first occurrence of each triple in l
RECURSIVE FirstTriples(_, _)
FirstTriples(l, i) ==
    IF i > Len(l) THEN <<>>
    ELSE (IF \A j \in 1..(i - 1) : Triple(l[j]) # Triple(l[i])
          THEN <<i>> ELSE <<>>) \o FirstTriples(l, i + 1)

\* the concatenation cut to the overall cap: its first n items
Capped ==
    IF args.samples > 0 /\ Len(AllReviews) > args.samples
    THEN SubSeq(AllReviews, 1, args.samples)
    ELSE AllReviews

(* C3: the rows of the combined table are, in order, exactly the first       *)
(* occurrence of each (user_id, asin, timestamp) triple of the concatenation *)
(* cut to the overall cap; no two rows share a triple.                       *)
C3_StableFirstWins ==
    combined_df # None =>
        LET df == combined_df[1]
            firsts == FirstTriples(Capped, 1)
        IN /\ Len(df.rows) = Len(firsts)
           /\ \A k \in 1..Len(df.rows) :
                 /\ df.index[k] = firsts[k] - 1
                 /\ SameReview(df.rows[k], Capped[firsts[k]])
           /\ \A k, m \in 1..Len(df.rows) :
                 k # m => Triple(df.rows[k]) # Triple(df.rows[m])

\* the k-th line of the file that decodes to an object
RECURSIVE ObjectLines(_, _)
ObjectLines(lines, i) ==
    IF i > Len(lines) THEN <<>>
    ELSE (IF lines[i].kind = "object" THEN <<lines[i].obj>> ELSE <<>>)
         \o ObjectLines(lines, i + 1)

\* the timestamp the fallback rule gives a decoded review
FallbackTimestamp(review) ==
    LET rt == review["reviewTime"]
        unix == review["unixReviewTime"]
        date == strptime_mdY(rt.str)
    IN IF rt.t = "str" /\ date.ok THEN TimestampMs(date.y, date.m, date.d, tz)
       ELSE IF unix.t = "num" THEN unix.num * 1000
       ELSE 0

(* C4: the record of a JSON object line has the millisecond epoch of         *)
(* reviewTime when that is present and parses, else unixReviewTime * 1000    *)
(* when that is present, else 0.                                             *)
C4_TimestampFallback ==
    (pc = "returned" /\ json_reviews # None) =>
        LET objs == ObjectLines(fs.json_reviews[1], 1)
        IN \A k \in 1..Len(json_reviews[1]) :
              k <= Len(objs) =>
                  json_reviews[1][k]["timestamp"] = FallbackTimestamp(objs[k])

\* a unit the parser has a record for: an object whose fields have the
\* expected shapes
WellFormed(line) ==
    /\ line.kind = "object"
    /\ line.obj["reviewTime"].t \in {"absent", "str"}
    /\ line.obj["helpful"].t = "absent"
          \/ (line.obj["helpful"].t = "list" /\ line.obj["helpful"].nums # <<>>)
    /\ line.obj["overall"].t \in {"absent", "num"}

(* C5: whatever a line holds, parse_json_reviews emits records for it or     *)
(* none and goes on: it never raises, and the records of all well-formed     *)
(* lines are emitted, up to the cap.                                         *)
C5_RecordFailuresDoNotAbort ==
    pc # "call" =>
        /\ exc = NoExc
        /\ json_reviews # None
        /\ LET n == Cardinality({i \in 1..Len(fs.json_reviews[1]) :
                                     WellFormed(fs.json_reviews[1][i])})
           IN Len(json_reviews[1]) =
                  IF Truthy(max_samples) /\ max_samples[1] < n
                  THEN max_samples[1] ELSE n

(* C6: the output file is written only after the three parsers and the       *)
(* Combiner have completed and with a format among csv, json, excel; a run   *)
(* that a parser aborts reaches neither the Combiner nor the Exporter; and   *)
(* save_combined_data raises ValueError for any other format, leaving the    *)
(* output path as it was.                                                    *)
C6_NoOutputOnFailure ==
    /\ output_file # None =>
          /\ pc = "done" /\ exc = NoExc
          /\ AllParsed /\ combined_df # None
          /\ StrLower(args.format) \in {Csv, Json, Excel}
          /\ output_file[1].rows = combined_df[1].rows
    /\ (pc = "raised" /\ exc.raised_by \in Parsers) =>
          combined_df = None /\ output_file = None
    /\ combined_df # None =>
          \A f \in {Xml, CsvUpper, Csv, Json, Excel, <<>>} :
              LET r == save_combined_data(combined_df[1], output_file, f)
              IN IF StrLower(f) \in {Csv, Json, Excel}
                 THEN r.exc = "none"
                 ELSE r.exc = "ValueError" /\ r.data = output_file

\* a run that a missing file aborts after another parser has returned
C6_Witness ==
    /\ pc = "raised"
    /\ exc.name = "FileNotFoundError"
    /\ txt_reviews # None /\ txt_reviews[1] # <<>>

\* the category the rewrite rule gives category c
Rewritten(c) ==
    IF Contains(c, Book) THEN StrReplace(c, Books, BooksAndLiterature)
    ELSE IF c = AmazonInstantVideo THEN VideoAndEntertainment
    ELSE c

(* C7: the category of an output row is its record's category with each      *)
(* "Books" replaced by "Books & Literature" if it contains "Book", "Video &  *)
(* Entertainment" if it is exactly "Amazon Instant Video", and unchanged     *)
(* otherwise; no row has the category "Amazon Instant Video".                *)
C7_CategoryRewrite ==
    combined_df # None =>
        LET df == combined_df[1]
        IN \A k \in 1..Len(df.rows) :
              /\ df.rows[k]["category"] =
                     Rewritten(AllReviews[df.index[k] + 1]["category"])
              /\ df.rows[k]["category"] # AmazonInstantVideo

\* a table with a row of each kind: Books rewritten, "Book" kept, the video
\* category rewritten, another category kept
C7_Witness ==
    /\ combined_df # None
    /\ LET cats == {<<AllReviews[combined_df[1].index[k] + 1]["category"],
                      combined_df[1].rows[k]["category"]>> :
                        k \in 1..Len(combined_df[1].rows)}
       IN /\ <<Books, BooksAndLiterature>> \in cats
          /\ <<AmazonInstantVideo, VideoAndEntertainment>> \in cats
          /\ <<Book, Book>> \in cats

(* C8: every record a parser emits has the eleven fields and                 *)
(* verified_purchase false; rating is null exactly for the records of the    *)
(* Meta-JSON parser; every row of the combined table has the eleven fields   *)
(* and review_date, and no review_id.                                        *)
C8_RecordShape ==
    /\ \A l \in Returned : \A i \in 1..Len(l) :
          DOMAIN l[i] = RecordFields /\ l[i]["verified_purchase"] = FALSE
    /\ txt_reviews # None =>
          \A i \in 1..Len(txt_reviews[1]) : txt_reviews[1][i]["rating"] # None
    /\ json_reviews # None =>
          \A i \in 1..Len(json_reviews[1]) : json_reviews[1][i]["rating"] # None
    /\ meta_reviews # None =>
          \A i \in 1..Len(meta_reviews[1]) : meta_reviews[1][i]["rating"] = None
    /\ combined_df # None =>
          /\ combined_df[1].columns = RecordFields \cup {"review_date"}
          /\ \A k \in 1..Len(combined_df[1].rows) :
                DOMAIN combined_df[1].rows[k] = RecordFields \cup {"review_date"}

\* a finished run in which each parser emitted a record
C8_Witness ==
    /\ pc = "done"
    /\ AllParsed
    /\ txt_reviews[1] # <<>> /\ json_reviews[1] # <<>> /\ meta_reviews[1] # <<>>
    /\ combined_df[1].rows # <<>>

(* C9: the Combiner drops a record only if an earlier record of the          *)
(* concatenation has the same user_id, asin and timestamp.                   *)
C9_OnlyTrueDuplicates ==
    combined_df # None =>
        \A i \in 1..Len(Capped) :
            (\A k \in 1..Len(combined_df[1].index) :
                 combined_df[1].index[k] # i - 1)
            => \E j \in 1..(i - 1) : Triple(Capped[j]) = Triple(Capped[i])

(* C10: when the three parsers return no record, combine_review_data         *)
(* returns a table of zero rows without raising and the run goes on to       *)
(* write the output file and finish.                                         *)
C10_EmptyInputHandled ==
    (/\ txt_reviews = Some(<<>>) /\ json_reviews = Some(<<>>)
     /\ meta_reviews = Some(<<>>) /\ pc # "combine") =>
        /\ exc = NoExc
        /\ combined_df # None /\ combined_df[1].rows = <<>>
        /\ pc = "done" => output_file # None

====
